---- MODULE Spec2Model ----
(***************************************************************************)
(* blobber: the scan of cmd/blobber/root.go.  RootCmd.Run is the           *)
(* dispatcher; every (account, container) pair of a resolving account gets *)
(* one goroutine that runs checkContainer.  The network and the resolver   *)
(* are the environment: every request draws its outcome from a small set.  *)
(***************************************************************************)
EXTENDS Integers, FiniteSets, Sequences, TLC

\* ------------------------------------------------------------- bounds
NAccounts == 2
NContainers == 2
MaxN == 2
MaxPages == 2
SmallPage == 3
BigLimit == 5011
TinyLimit == 2
TenPage == 10
HugePage == 100000
MaxM == 2
\* The pages of one walk are counted up to MaxFetched.
MaxFetched == 4

\* -------------------------------------------------- program constants
FullPage == 5000
DefaultLimit == 10
SaveLimit == 99999

Accounts == 1..NAccounts
Containers == 1..NContainers
Pairs == Accounts \X Containers

NoMarker == ""

\* The marker that follows page i of a container: "m1", "m2", ...
Token(i) == "m" \o ToString(i)
Tokens == {Token(i) : i \in 1..MaxPages}
Markers == Tokens \cup {NoMarker}
PageSizes == {0, SmallPage, TenPage, FullPage}
Limits == {TinyLimit, DefaultLimit, BigLimit}

\* The page a request asks for: the first without a marker, else the one
\* after the page that carried the marker ("&marker=" + nextMarker,
\* root.go 398, 505).
PageOf(tok) ==
    IF tok = NoMarker THEN 1
    ELSE 1 + CHOOSE i \in 1..MaxPages : Token(i) = tok

\* ------------------------------------------- containers (environment)
\* What a container holds is a chain of pages: chain[i] is the number of
\* <Blob> elements of page i, and every page but the last carries a marker.
\* A chain is walked with at most MaxPages requests after the first page.
Chains == UNION {[1..k -> PageSizes] : k \in 1..(MaxPages + 1)}
             \cup {<<HugePage>>}

\* The chains of a plain server: an empty container, one small page, or
\* two.
PlainChains == {<<0>>, <<SmallPage>>, <<SmallPage, SmallPage>>}

\* The pages of a container whose server never ends the chain: the last
\* page carries the token that leads to it again, and holds no blob.
LoopChains == {<<SmallPage, 0>>}
ChainsOf(srv) ==
    IF srv = "any" THEN Chains
    ELSE IF srv = "loop" THEN LoopChains
    ELSE IF srv = "steady" THEN {<<SmallPage>>}
    ELSE PlainChains

RECURSIVE SumTo(_, _)
SumTo(ch, k) == IF k = 0 THEN 0 ELSE ch[k] + SumTo(ch, k - 1)

\* The number of blobs of a container.
Total(ch) == SumTo(ch, Len(ch))

\* ------------------------------------------------ responses (environment)
\* fail: "get" (client.Get returned an error), "read" (io.ReadAll did),
\* "none".  kind: what the body is: "garbage" (no XML document, or an empty
\* body), "error" (<Error><Code>code</Code>...), "enum" (<EnumerationResults>
\* with n <Blob> elements and <NextMarker> marker).
Response(f, s, k, c, n, m) ==
    [fail |-> f, status |-> s, kind |-> k, code |-> c, n |-> n, marker |-> m]

NoResp == Response("none", 0, "none", "", 0, NoMarker)

Statuses == {200, 404}
ErrorCodes == {"", "ResourceNotFound", "PublicAccessNotPermitted",
               "NoAuthenticationInformation", "AuthenticationFailed"}

\* Page k of a container as a body: its <Blob> elements and the marker of
\* the next page, empty on the last page.
PageBody(ch, k) ==
    Response("none", 0, "enum", "", ch[k],
             IF k < Len(ch) THEN Token(k) ELSE NoMarker)

\* The bodies a request for page k of a container may be answered with.
Bodies(ch, k) ==
    {Response("none", 0, "garbage", "", 0, NoMarker)}
    \cup {Response("none", 0, "error", c, 0, NoMarker) : c \in ErrorCodes}
    \cup {PageBody(ch, k)}

GetFailed == Response("get", 0, "none", "", 0, NoMarker)

ProbeOutcomes(ch) ==
    {GetFailed}
    \cup {Response("read", s, "none", "", 0, NoMarker) : s \in Statuses}
    \cup {[b EXCEPT !.status = s] : b \in Bodies(ch, 1), s \in Statuses}

\* The answers of a server that keeps to the protocol and to few cases: a
\* listing comes with 200, an error with 404.
PlainOutcome(r) ==
    /\ r.fail # "read"
    /\ r.kind # "garbage"
    /\ r.kind = "error" => r.status = 404 /\ r.code = "PublicAccessNotPermitted"
    /\ r.kind = "enum" => r.status = 200

\* Page k of a container of the server that never ends the chain: every
\* page comes with a token, the last one with the token that asks for it
\* again.
LoopBody(ch, k) ==
    Response("none", 200, "enum", "", ch[k],
             IF k < Len(ch) THEN Token(k) ELSE Token(k - 1))

\* What the probe of a pair whose container holds ch may be answered:
\* server is "any", "plain", "loop" or "steady"; the steady one answers
\* every probe with the listing, and no request or file operation of its
\* run fails.
ProbeOutcomesOf(srv, ch) ==
    IF srv = "any" THEN ProbeOutcomes(ch)
    ELSE IF srv = "loop" THEN {LoopBody(ch, 1)}
    ELSE IF srv = "steady" THEN {[PageBody(ch, 1) EXCEPT !.status = 200]}
    ELSE {r \in ProbeOutcomes(ch) : PlainOutcome(r)}

\* The answers to the request of a walk that carries the marker tok; the
\* server that never ends the chain never fails either.  The
\* status of a page is never read, so one value stands for all; one error
\* code stands for every <Error> body, which fails to parse as
\* EnumerationResults.
PageOutcomes(srv, ch, tok) ==
    LET any ==
            {GetFailed, Response("read", 200, "none", "", 0, NoMarker)}
            \cup {[b EXCEPT !.status = 200] : b \in
                     {c \in Bodies(ch, PageOf(tok)) :
                         c.kind = "error" => c.code = "AuthenticationFailed"}}
    IN  IF srv = "any" THEN any
        ELSE IF srv = "loop" THEN {LoopBody(ch, PageOf(tok))}
        ELSE {r \in any : PlainOutcome(r)}

\* ------------------------------------------------------------ parsing
\* xml.Unmarshal into BlobError (XMLName "Error"): the root element must be
\* <Error>.
ParseBlobError(r) ==
    [ok |-> r.kind = "error", Code |-> IF r.kind = "error" THEN r.code ELSE ""]

\* xml.Unmarshal into EnumerationResults (XMLName "EnumerationResults").
ParseEnumerationResults(r) ==
    [ok |-> r.kind = "enum",
     n |-> IF r.kind = "enum" THEN r.n ELSE 0,
     NextMarker |-> IF r.kind = "enum" THEN r.marker ELSE NoMarker]

\* xml.Unmarshal into azure.ErrorResponse, which names no root element: any
\* well-formed document parses, and Code is empty unless a <Code> child is
\* there.
ParseErrorResponse(r) ==
    [ok |-> r.kind \in {"error", "enum"},
     Code |-> IF r.kind = "error" THEN r.code ELSE ""]

\* ----------------------------------------------------- classification
CodeReturns_PermittedFallsThrough(code) ==
    code \notin {"ResourceNotFound", "PublicAccessNotPermitted"}

\* The switch on blobError.Code of checkContainer: TRUE when the case
\* returns, FALSE for ResourceNotFound, which breaks out of the switch.
CodeReturns(code) == code # "ResourceNotFound"

\* Scanner.checkAccess of pkg/azure: the AccessResult it returns.
checkAccess(r) ==
    IF r.fail = "get" THEN [IsPublic |-> FALSE, ErrorCode |-> "RequestFailed"]
    ELSE IF r.status = 200 THEN [IsPublic |-> TRUE, ErrorCode |-> ""]
    ELSE IF r.fail = "read" THEN [IsPublic |-> FALSE, ErrorCode |-> "ReadFailed"]
    ELSE IF ~ParseErrorResponse(r).ok THEN [IsPublic |-> TRUE, ErrorCode |-> ""]
    ELSE IF ParseErrorResponse(r).Code = "" THEN [IsPublic |-> TRUE, ErrorCode |-> ""]
    ELSE [IsPublic |-> FALSE, ErrorCode |-> ParseErrorResponse(r).Code]

domainExists_Ignored(lookup) == TRUE

\* domainExists: err == nil of net.LookupHost.
domainExists(lookup) == lookup = "ok"

ListContinue_IgnoresMarker(marker, len, lim) == len < lim

\* "for nextMarker != "" && len(allBlobs) < limit"
ListContinue(marker, len, lim) == marker # NoMarker /\ len < lim

ListWalk_Never(lim, marker) == FALSE

\* "if limit > 5000 && nextMarker != """: is the list walk entered at all.
ListWalk(lim, marker) == lim > FullPage /\ marker # NoMarker

\* "nextMarker = nextResults.NextMarker" of the list walk.
ListNextMarker(old, page) == page.NextMarker

\* "if limit > 0 && len(allBlobs) > limit { allBlobs = allBlobs[:limit] }"
Truncate(len, lim) == IF lim > 0 /\ len > lim THEN lim ELSE len

\* ------------------------------------------------------- blob lists
\* A []Blob is held as its runs: <<[from |-> tok, n |-> k], ...>> stands for
\* the first k <Blob> elements of the page that the request with marker tok
\* was answered with, in their order, followed by those of the next run.
RECURSIVE LenTo(_, _)
LenTo(blobs, i) == IF i = 0 THEN 0 ELSE blobs[i].n + LenTo(blobs, i - 1)

\* len(blobs)
Length(blobs) == LenTo(blobs, Len(blobs))

AppendPage_InFront(blobs, tok, n) ==
    IF n = 0 THEN blobs ELSE <<[from |-> tok, n |-> n]>> \o blobs

\* "allBlobs = append(allBlobs, nextResults.Blobs.Blob...)" for the n
\* elements of the page asked for with tok.
AppendPage(blobs, tok, n) ==
    IF n = 0 THEN blobs ELSE Append(blobs, [from |-> tok, n |-> n])

\* blobs[:k]
RECURSIVE Slice(_, _)
Slice(blobs, k) ==
    IF k <= 0 \/ blobs = <<>> THEN <<>>
    ELSE IF Head(blobs).n >= k THEN <<[Head(blobs) EXCEPT !.n = k]>>
    ELSE <<Head(blobs)>> \o Slice(Tail(blobs), k - Head(blobs).n)

\* The blobs of a container in the order of its pages.
RECURSIVE BlobsOfFrom(_, _)
BlobsOfFrom(ch, k) ==
    IF k > Len(ch) THEN <<>>
    ELSE (IF ch[k] = 0 THEN <<>>
          ELSE <<[from |-> IF k = 1 THEN NoMarker ELSE Token(k - 1), n |-> ch[k]]>>)
         \o BlobsOfFrom(ch, k + 1)
BlobsOf(ch) == BlobsOfFrom(ch, 1)

\* The arguments of the call of a sink, root.go 567-575: account, container
\* and the list, and nothing else.
SinkArgs(p, blobs) == [account |-> p[1], container |-> p[2], blobs |-> blobs]

\* The sink checkContainer dispatches to.
SinkOf(dl, out, list) ==
    IF dl THEN "download"
    ELSE IF out # "" THEN "save"
    ELSE IF list THEN "list"
    ELSE "none"

CanAcquire_Unbounded(k, n) == TRUE

\* "sem <- struct{}{}" on a channel of capacity n holding k: can it proceed.
CanAcquire(k, n) == k < n

WaitReturns_AtOnce(w) == TRUE

\* wg.Wait() returns.
WaitReturns(w) == w = 0

CanLock_NoMutex(held) == TRUE

\* sync.Mutex.Lock() can proceed.
CanLock(held) == ~held

WgAfterDone_Forgotten(w) == w

\* wg.Done(): the counter of the WaitGroup after it.
WgAfterDone(w) == w - 1

ReturnPc_NotDeferred == "countLock"

\* Where a return of checkContainer leads: the deferred release.
ReturnPc == "release"

\* ---------------------------------------------------------------- state
VARIABLES
    \* the input: len(accountList), len(containerList), and the server
    numAccounts, numContainers, server,
    \* Blob.Name of the j-th blob of a container, as its "/"-separated parts
    blobNames,
    \* flags (root.go 66-79)
    maxGoroutines, maxParallelDownload, limit, totalCount, isDownload,
    outputPath, listBlobs,
    \* RootCmd.Run
    mpc, acct, cont, dns, mtmp, sem, wg, countLock, checkedCount,
    foundContainerLock, foundContainers, summary,
    \* one checkContainer goroutine per pair
    pc, resp, nextMarker, allBlobs, totalBlobCount, tmp, req, fetched,
    \* downloadBlobs of a pair: the index of the blob the loop is at, its sem
    \* and wg, the number of its last message, and one goroutine per blob
    dlIdx, dsem, dwg, reported, jobs,
    \* history of each pair
    class, records, sinkKind, lastTok, pageOK, incs, probes, slot, releases,
    \* the pages of the container of each pair, once a listing was served,
    \* and the number of URLs its sink printed or wrote
    chain, emitted,
    \* history of the run: how many probes were classified Public
    publicCount,
    \* the output file of saveBlobList, the number of lines each pair wrote
    \* to it, and the number of lookups of each account
    outFile, saved, lookups,
    \* package downloader: what the environment answers to the calls of one
    \* download, and the call of each of its two functions
    env, call,
    \* how the count walk of each pair has ended: "token" on a page without a
    \* marker, "failed" on a fetch or parse that failed, "none" before
    countEnd

flags == <<maxGoroutines, maxParallelDownload, limit, totalCount, isDownload,
           outputPath, listBlobs>>
mainVars == <<mpc, acct, cont, dns, mtmp>>
shared == <<sem, wg, countLock, checkedCount, foundContainerLock,
            foundContainers, summary>>
locals == <<resp, nextMarker, allBlobs, totalBlobCount, tmp, req, fetched>>
download == <<dlIdx, dsem, dwg, reported, jobs>>
history == <<class, records, sinkKind, lastTok, pageOK, incs, probes, slot,
             releases, chain, emitted, publicCount>>
input == <<numAccounts, numContainers, server, blobNames>>
runHistory == <<outFile, saved, lookups, countEnd>>
downloader == <<env, call>>
vars == <<input, flags, mainVars, shared, pc, locals, download, history,
          runHistory,
          downloader>>

OutputPaths == {"", "out"}

\* The blobs of one downloadBlobs call: the lists of the runs that download
\* have at most SmallPage blobs.
Jobs == 1..SmallPage

\* A download goroutine of blob j of the list: where it is, how it ended ("ok", or the call that
\* failed), whether its file was there before, and what the file holds:
\* "asWas" (untouched), "empty" (created or truncated), "partial", "new".
\* starts counts the "go" statements that ran for the blob.
NoJob == [pc |-> "idle", res |-> "none", existed |-> "unknown", file |-> "asWas",
          starts |-> 0]

\* ------------------------------------------------------------- paths
\* A path is held as the sequence of the parts between its separators:
\* "d//a" is <<"d", "", "a">>, "/a" is <<"", "a">>.  All paths of the run are
\* relative, as outputPath is.
RECURSIVE CleanFrom(_, _)
\* filepath.Clean of a relative path, the parts already cleaned in acc:
\* empty parts and "." are dropped, ".." takes the part before it away when
\* there is one that is not "..", and stays otherwise.
CleanFrom(parts, acc) ==
    IF parts = <<>> THEN acc
    ELSE IF Head(parts) \in {"", "."} THEN CleanFrom(Tail(parts), acc)
    ELSE IF Head(parts) = ".."
    THEN IF acc # <<>> /\ acc[Len(acc)] # ".."
         THEN CleanFrom(Tail(parts), SubSeq(acc, 1, Len(acc) - 1))
         ELSE CleanFrom(Tail(parts), Append(acc, ".."))
    ELSE CleanFrom(Tail(parts), Append(acc, Head(parts)))

\* filepath.Join(dir, name): the parts are put together and cleaned.
Join(dir, name) == CleanFrom(dir \o name, <<>>)

\* "outputDir := filepath.Join(outputPath, account, container)", root.go 665.
OutputDir(out, p) ==
    Join(<<out>>, <<"a" \o ToString(p[1]), "c" \o ToString(p[2])>>)

\* "filename := filepath.Join(outputDir, blob.Name)", root.go 706.
Filename(out, p, name) == Join(OutputDir(out, p), name)

\* Names without separators, one per blob.
PlainNames == [j \in Jobs |-> <<"b" \o ToString(j)>>]

\* The names of the first two blobs of a container whose names have
\* separators: a repeated separator, a leading separator, ".." parts.
NamePairs ==
    {<<(<<"d", "a">>), (<<"d", "", "a">>)>>,
     <<(<<"", "a">>), (<<"d", "..", "b">>)>>,
     <<(<<"..", "..", "..", "a">>), (<<"a">>)>>}
SeparatorNames ==
    {[j \in Jobs |-> IF j <= 2 THEN pr[j] ELSE PlainNames[j]] : pr \in NamePairs}

\* ------------------------------------------------ package downloader
\* The two functions of the package.
Functions == {"DownloadFile", "DebugDownloadFile"}

\* What the environment answers to the calls of one download: whether
\* os.MkdirAll, os.Create and client.Get succeed, the status of the
\* response, whether io.Copy gets the whole body, and whether destPath was
\* there before, with content.
Envs ==
    [mkdir : BOOLEAN, create : BOOLEAN, get : BOOLEAN, status : Statuses,
     copy : BOOLEAN, before : {"absent", "old"}]
NoEnv ==
    [mkdir |-> TRUE, create |-> TRUE, get |-> TRUE, status |-> 200,
     copy |-> TRUE, before |-> "absent"]

\* A call of one of the functions: where it is, the file at destPath as
\* the call leaves it, the error it returns and the lines it has printed.
NoCall == [pc |-> "idle", file |-> "absent", ret |-> "none", prints |-> 0]
StartedCall(e) == [pc |-> "mkdir", file |-> e.before, ret |-> "none", prints |-> 0]
Returned(c, err) == [c EXCEPT !.pc = "done", !.ret = err]

\* What os.Create(destPath) leaves of the file: O_TRUNC empties it.
Truncated(was) == "empty"

StatusOK_Any(status) == TRUE

\* "resp.StatusCode != http.StatusOK" of both functions, negated.
StatusOK(status) == status = 200

\* One step of DownloadFile, part_000 13-46, under the answers e.
DownloadFileStep(c, e) ==
    IF c.pc = "mkdir"
    THEN IF e.mkdir THEN [c EXCEPT !.pc = "create"]
         ELSE Returned(c, "failed to create directory")
    ELSE IF c.pc = "create"
    THEN IF e.create THEN [c EXCEPT !.pc = "get", !.file = Truncated(@)]
         ELSE Returned(c, "failed to create file")
    ELSE IF c.pc = "get"
    THEN IF e.get THEN [c EXCEPT !.pc = "status"]
         ELSE Returned(c, "HTTP request failed")
    ELSE IF c.pc = "status"
    THEN IF StatusOK(e.status) THEN [c EXCEPT !.pc = "copy"]
         ELSE Returned(c, "download failed, HTTP code")
    ELSE IF e.copy THEN Returned([c EXCEPT !.file = "new"], "nil")
         ELSE Returned([c EXCEPT !.file = "partial"], "file writing error")

\* One step of DebugDownloadFile, part_000 74-125, with its Printf calls.
DebugDownloadFileStep(c, e) ==
    IF c.pc = "mkdir"
    THEN IF e.mkdir THEN [c EXCEPT !.pc = "create", !.prints = @ + 1]
         ELSE Returned([c EXCEPT !.prints = @ + 2], "failed to create directory")
    ELSE IF c.pc = "create"
    THEN IF e.create THEN [c EXCEPT !.pc = "get", !.file = Truncated(@)]
         ELSE Returned([c EXCEPT !.prints = @ + 1], "failed to create file")
    ELSE IF c.pc = "get"
    THEN IF e.get THEN [c EXCEPT !.pc = "status", !.prints = @ + 2]
         ELSE Returned([c EXCEPT !.prints = @ + 2], "HTTP request failed")
    ELSE IF c.pc = "status"
    THEN IF StatusOK(e.status) THEN [c EXCEPT !.pc = "copy", !.prints = @ + 2]
         ELSE Returned([c EXCEPT !.prints = @ + 1], "download failed, HTTP code")
    ELSE IF e.copy
         THEN Returned([c EXCEPT !.file = "new", !.prints = @ + 1], "nil")
         ELSE Returned([c EXCEPT !.file = "partial", !.prints = @ + 1],
                       "file writing error")

\* The runs of the model are of ten kinds.
\* The package downloader on its own: each of its two functions is called
\* for one download, under the same answers.
InitDownloader ==
    /\ numAccounts = 1 /\ numContainers = 1 /\ server = "plain"
    /\ blobNames = PlainNames
    /\ maxGoroutines = 1
    /\ maxParallelDownload = 1
    /\ limit = DefaultLimit
    /\ totalCount = FALSE
    /\ isDownload = FALSE
    /\ outputPath = "" /\ listBlobs = FALSE
    /\ mpc = "unused"
    /\ env \in Envs
    /\ call = [f \in Functions |-> StartedCall(env)]

\* One pair, any answer, every flag but --download.
InitOne ==
    /\ numAccounts = 1 /\ numContainers = 1 /\ server = "any"
    /\ maxGoroutines \in 1..MaxN
    /\ maxParallelDownload = 1
    /\ limit \in Limits
    /\ totalCount \in BOOLEAN
    /\ isDownload = FALSE
    /\ outputPath \in OutputPaths
    /\ listBlobs \in BOOLEAN

\* One pair of a plain server, downloaded.
InitDownload ==
    /\ numAccounts = 1 /\ numContainers = 1 /\ server = "plain"
    /\ maxGoroutines = 1
    /\ maxParallelDownload \in 1..MaxM
    /\ limit \in {TinyLimit, DefaultLimit}
    /\ totalCount = FALSE
    /\ isDownload = TRUE
    /\ outputPath = "out"
    /\ listBlobs = FALSE

\* One pair of a plain server whose blob names have separators, downloaded
\* two blobs at a time.
InitNames ==
    /\ numAccounts = 1 /\ numContainers = 1 /\ server = "plain"
    /\ maxGoroutines = 1
    /\ maxParallelDownload = MaxM
    /\ limit = TinyLimit
    /\ totalCount = FALSE
    /\ isDownload = TRUE
    /\ outputPath = "out"
    /\ listBlobs = FALSE
    /\ blobNames \in SeparatorNames

\* The containers of one account, downloaded at the same time, in a run
\* where nothing fails.
InitDownloadMany ==
    /\ numAccounts = 1 /\ numContainers = NContainers /\ server = "steady"
    /\ maxGoroutines = MaxN
    /\ maxParallelDownload \in 1..MaxM
    /\ limit = TinyLimit
    /\ totalCount = FALSE
    /\ isDownload = TRUE
    /\ outputPath = "out"
    /\ listBlobs = FALSE

\* A pool of size 0: the probe pool in a scan of every account and
\* container, or the download pool of one pair.
InitNoPool ==
    /\ server = "plain"
    /\ totalCount = FALSE
    /\ listBlobs = FALSE
    /\ \/ /\ numAccounts = NAccounts /\ numContainers = NContainers
          /\ maxGoroutines = 0 /\ maxParallelDownload = 1
          /\ limit = DefaultLimit
          /\ isDownload = FALSE /\ outputPath = ""
       \/ /\ numAccounts = 1 /\ numContainers = 1
          /\ maxGoroutines = 1 /\ maxParallelDownload = 0
          /\ limit = TinyLimit
          /\ isDownload = TRUE /\ outputPath = "out"

\* The containers of one account of a plain server, downloaded one after
\* the other, two blobs of each, one at a time.
InitDownloadTwo ==
    /\ numAccounts = 1 /\ numContainers = NContainers /\ server = "plain"
    /\ maxGoroutines = 1
    /\ maxParallelDownload = 1
    /\ limit = TinyLimit
    /\ totalCount = FALSE
    /\ isDownload = TRUE
    /\ outputPath = "out"
    /\ listBlobs = FALSE

\* One pair whose server never ends the page chain; the URLs are listed.
InitLoop ==
    /\ numAccounts = 1 /\ numContainers = 1 /\ server = "loop"
    /\ maxGoroutines = 1
    /\ maxParallelDownload = 1
    /\ limit \in {TinyLimit, BigLimit}
    /\ totalCount \in BOOLEAN
    /\ isDownload = FALSE
    /\ outputPath = "" /\ listBlobs = TRUE

\* The containers of one account of a plain server, their URLs written to
\* the output file, or listed under a small limit.
InitSinkTwo ==
    /\ numAccounts = 1 /\ numContainers = NContainers /\ server = "plain"
    /\ maxGoroutines \in 1..MaxN
    /\ maxParallelDownload = 1
    /\ totalCount = FALSE
    /\ isDownload = FALSE
    /\ \/ outputPath = "out" /\ listBlobs = FALSE /\ limit = DefaultLimit
       \/ outputPath = "" /\ listBlobs = TRUE /\ limit = TinyLimit

\* Every account and container, a plain server, the default limit and no
\* output path.
InitScan ==
    /\ numAccounts = NAccounts /\ numContainers = NContainers
    /\ server = "plain"
    /\ maxGoroutines \in 1..MaxN
    /\ maxParallelDownload = 1
    /\ limit = DefaultLimit
    /\ totalCount \in BOOLEAN
    /\ isDownload = FALSE
    /\ outputPath = ""
    /\ listBlobs \in BOOLEAN

Init ==
    /\ \/ InitDownloader
       \/ /\ \/ InitNames
             \/ /\ InitOne \/ InitDownload \/ InitDownloadTwo
                   \/ InitDownloadMany \/ InitNoPool \/ InitSinkTwo
                   \/ InitLoop \/ InitScan
                /\ blobNames = PlainNames
          /\ mpc = "start"
          /\ env = NoEnv
          /\ call = [f \in Functions |-> NoCall]
    /\ acct = 1 /\ cont = 1
    /\ dns = [a \in Accounts |-> "unknown"]
    /\ mtmp = 0 /\ sem = 0 /\ wg = 0
    /\ countLock = FALSE /\ checkedCount = 0
    /\ foundContainerLock = FALSE /\ foundContainers = 0
    /\ summary = -1
    /\ pc = [p \in Pairs |-> "idle"]
    /\ resp = [p \in Pairs |-> NoResp]
    /\ nextMarker = [p \in Pairs |-> NoMarker]
    /\ allBlobs = [p \in Pairs |-> <<>>]
    /\ totalBlobCount = [p \in Pairs |-> 0]
    /\ tmp = [p \in Pairs |-> 0]
    /\ req = [p \in Pairs |-> "none"]
    /\ fetched = [p \in Pairs |-> 0]
    /\ dlIdx = [p \in Pairs |-> 0]
    /\ dsem = [p \in Pairs |-> 0]
    /\ dwg = [p \in Pairs |-> 0]
    /\ reported = [p \in Pairs |-> -1]
    /\ jobs = [p \in Pairs |-> [j \in Jobs |-> NoJob]]
    /\ class = [p \in Pairs |-> "None"]
    /\ records = [p \in Pairs |-> 0]
    /\ sinkKind = [p \in Pairs |-> "none"]
    /\ lastTok = [p \in Pairs |-> NoMarker]
    /\ pageOK = [p \in Pairs |-> TRUE]
    /\ probes = [p \in Pairs |-> 0]
    /\ slot = [p \in Pairs |-> FALSE]
    /\ releases = [p \in Pairs |-> 0]
    /\ incs = [p \in Pairs |-> 0]
    /\ chain = [p \in Pairs |-> <<>>]
    /\ emitted = [p \in Pairs |-> -1]
    /\ publicCount = 0
    /\ outFile = <<>>
    /\ saved = [p \in Pairs |-> 0]
    /\ lookups = [a \in Accounts |-> 0]
    /\ countEnd = [p \in Pairs |-> "none"]

\* ------------------------------------------------------ RootCmd.Run
Invalid_Never(out, list) == FALSE

\* "if outputPath != "" && listBlobs", root.go 117: flags that Run refuses.
Invalid(out, list) == out # "" /\ list

\* The flag check and the default limit of file output (root.go 116-126).
Validate ==
    /\ mpc = "start"
    /\ IF Invalid(outputPath, listBlobs)
       THEN mpc' = "aborted" /\ limit' = limit
       ELSE /\ mpc' = "resolve"
            /\ limit' = IF ~isDownload /\ outputPath # "" /\ limit = DefaultLimit
                        THEN SaveLimit ELSE limit
    /\ UNCHANGED <<download, downloader, input, runHistory, maxGoroutines, maxParallelDownload, totalCount,
                   isDownload, outputPath, listBlobs, acct, cont, dns, mtmp, shared, pc, locals, history>>

NextAccountIndex_Stays(a) == a

\* "for _, account := range accountList", root.go 185: the index of the
\* account after a.
NextAccountIndex(a) == a + 1

\* The end of one turn of "for _, account := range accountList".
NextAccount ==
    /\ acct' = NextAccountIndex(acct)
    /\ cont' = 1
    /\ mpc' = IF acct < numAccounts THEN "resolve" ELSE "wait"

\* domainExists(account + "." + baseDomain), root.go 187.
Resolve ==
    /\ mpc = "resolve"
    /\ \E lookup \in {"ok", "fail"} :
        /\ dns' = [dns EXCEPT ![acct] = lookup]
        /\ mpc' = IF domainExists(lookup) THEN "add" ELSE "skipLock"
    /\ lookups' = [lookups EXCEPT ![acct] = @ + 1]
    /\ UNCHANGED <<download, downloader, input, outFile, saved, countEnd, flags, acct, cont, mtmp, shared, pc, locals, history>>

\* countLock.Lock() of the skipped account, root.go 194.
SkipLock ==
    /\ mpc = "skipLock"
    /\ CanLock(countLock)
    /\ countLock' = TRUE
    /\ mtmp' = checkedCount
    /\ mpc' = "skipStore"
    /\ UNCHANGED <<download, downloader, input, runHistory, flags, acct, cont, dns, sem, wg, checkedCount,
                   foundContainerLock, foundContainers, summary, pc, locals,
                   history>>

CheckedAfterSkip_One(count, n) == count + 1

\* "checkedCount += len(containerList)", root.go 196.
CheckedAfterSkip(count, n) == count + n

\* checkedCount += len(containerList); countLock.Unlock(); continue.
SkipStore ==
    /\ mpc = "skipStore"
    /\ checkedCount' = CheckedAfterSkip(mtmp, numContainers)
    /\ countLock' = FALSE
    /\ mtmp' = 0
    /\ NextAccount
    /\ UNCHANGED <<download, downloader, input, runHistory, flags, dns, sem, wg, foundContainerLock, foundContainers,
                   summary, pc, locals, history>>

\* wg.Add(1), root.go 203.
WgAdd ==
    /\ mpc = "add"
    /\ wg' = wg + 1
    /\ mpc' = "acquire"
    /\ UNCHANGED <<download, downloader, input, runHistory, flags, acct, cont, dns, mtmp, sem, countLock, checkedCount,
                   foundContainerLock, foundContainers, summary, pc, locals,
                   history>>

NextContainer_Stays(c) == c

\* "for _, container := range containerList", root.go 202: the index of the
\* container after c.
NextContainer(c) == c + 1

ProbeSemSize_OneMore(n) == n + 1

ProbeSemSize_AtLeastOne(n) == IF n < 1 THEN 1 ELSE n

\* "sem := make(chan struct{}, maxGoroutines)", root.go 179.
ProbeSemSize(n) == n

\* "sem <- struct{}{}" and "go func(acc, cont string)", root.go 204-218.
Acquire ==
    /\ mpc = "acquire"
    /\ CanAcquire(sem, ProbeSemSize(maxGoroutines))
    /\ sem' = sem + 1
    /\ pc' = [pc EXCEPT ![<<acct, cont>>] = "probe"]
    /\ slot' = [slot EXCEPT ![<<acct, cont>>] = TRUE]
    /\ IF cont < numContainers
       THEN cont' = NextContainer(cont) /\ mpc' = "add" /\ acct' = acct
       ELSE NextAccount
    /\ UNCHANGED <<download, downloader, input, runHistory, flags, dns, mtmp, wg, countLock, checkedCount,
                   foundContainerLock, foundContainers, summary, locals,
                   class, records, sinkKind, lastTok, pageOK, incs, probes,
                   releases, chain, emitted, publicCount>>

\* wg.Wait(), root.go 222.
Wait ==
    /\ mpc = "wait"
    /\ WaitReturns(wg)
    /\ mpc' = "summary"
    /\ UNCHANGED <<download, downloader, input, runHistory, flags, acct, cont, dns, mtmp, shared, pc, locals, history>>

\* The summary line, root.go 225-231.
Summary ==
    /\ mpc = "summary"
    /\ summary' = foundContainers
    /\ mpc' = "done"
    /\ UNCHANGED <<download, downloader, input, runHistory, flags, acct, cont, dns, mtmp, sem, wg, countLock,
                   checkedCount, foundContainerLock, foundContainers, pc,
                   locals, history>>

\* --------------------------------------------------- checkContainer
\* The first page of the pair: results of root.go 366, kept in resp.
results(p) == ParseEnumerationResults(resp[p])

ProbeClass_OnceFound(r) ==
    IF r.fail # "none" THEN "TransientError"
    ELSE IF ParseEnumerationResults(r).n > 0 /\ foundContainers = 0 THEN "Public"
    ELSE "NotAccessible"

\* checkContainer up to "Container is accessible and has blobs": which way
\* the probe leaves.  The HTTP status is never read.
ProbeClass(r) ==
    IF r.fail # "none" THEN "TransientError"
    ELSE IF /\ ParseBlobError(r).ok
            /\ ParseBlobError(r).Code # ""
            /\ CodeReturns(ParseBlobError(r).Code) THEN "Forbidden"
    ELSE IF \/ ~ParseEnumerationResults(r).ok
            \/ ParseEnumerationResults(r).n = 0 THEN "NotAccessible"
    ELSE "Public"

\* client.Get(listURL) to the classification, root.go 318-376.  The
\* container holds some chain of pages, which is kept once a listing of it
\* was served.
Probe(p) ==
    /\ pc[p] = "probe"
    /\ \E ch \in ChainsOf(server) : \E r \in ProbeOutcomesOf(server, ch) :
        /\ resp' = [resp EXCEPT ![p] = r]
        /\ chain' = [chain EXCEPT ![p] = IF r.kind = "enum" THEN ch ELSE <<>>]
        /\ class' = [class EXCEPT ![p] = ProbeClass(r)]
        /\ lastTok' = [lastTok EXCEPT ![p] = ParseEnumerationResults(r).NextMarker]
        /\ IF ProbeClass(r) # "Public"
           THEN /\ pc' = [pc EXCEPT ![p] = ReturnPc]
                /\ UNCHANGED <<nextMarker, totalBlobCount>>
           ELSE IF totalCount /\ ParseEnumerationResults(r).NextMarker # NoMarker
           THEN /\ pc' = [pc EXCEPT ![p] = "countSend"]
                /\ totalBlobCount' =
                       [totalBlobCount EXCEPT ![p] = ParseEnumerationResults(r).n]
                /\ nextMarker' =
                       [nextMarker EXCEPT ![p] = ParseEnumerationResults(r).NextMarker]
           ELSE /\ pc' = [pc EXCEPT ![p] = "foundLock"]
                /\ UNCHANGED <<nextMarker, totalBlobCount>>
        /\ publicCount' = publicCount + (IF ProbeClass(r) = "Public" THEN 1 ELSE 0)
    /\ probes' = [probes EXCEPT ![p] = @ + 1]
    /\ UNCHANGED <<download, downloader, input, runHistory, flags, mainVars, shared, allBlobs, tmp, req,
                   fetched, records, sinkKind, pageOK, incs, slot, releases,
                   emitted>>

\* client.Get(nextURL) of the count walk, root.go 403-411: the request.
CountSend(p) ==
    /\ pc[p] = "countSend"
    /\ req' = [req EXCEPT ![p] = nextMarker[p]]
    /\ pc' = [pc EXCEPT ![p] = "countRecv"]
    /\ UNCHANGED <<download, downloader, input, runHistory, flags, mainVars, shared, resp, nextMarker,
                   allBlobs, totalBlobCount, tmp, fetched, history>>

CountContinue_UpToLimit(marker, count, lim) == marker # NoMarker /\ count < lim

\* "for nextMarker != """, root.go 403: the count walk goes on while the
\* marker is not empty; the count and the limit are not looked at.
CountContinue(marker, count, lim) == marker # NoMarker

\* The response of the count walk and the rest of the turn, root.go 411-454.
\* totalBlobCount and the walk's own nextMarker end with the walk (458).
CountRecv(p) ==
    /\ pc[p] = "countRecv"
    /\ \E r \in PageOutcomes(server, chain[p], req[p]) :
        IF r.fail # "none" \/ ~ParseEnumerationResults(r).ok
        THEN /\ pc' = [pc EXCEPT ![p] = "foundLock"]
             /\ totalBlobCount' = [totalBlobCount EXCEPT ![p] = 0]
             /\ nextMarker' = [nextMarker EXCEPT ![p] = NoMarker]
             /\ countEnd' = [countEnd EXCEPT ![p] = "failed"]
        ELSE IF CountContinue(ParseEnumerationResults(r).NextMarker,
                              totalBlobCount[p] + ParseEnumerationResults(r).n,
                              limit)
        THEN /\ pc' = [pc EXCEPT ![p] = "countSend"]
             /\ totalBlobCount' = [totalBlobCount EXCEPT
                    ![p] = @ + ParseEnumerationResults(r).n]
             /\ nextMarker' =
                    [nextMarker EXCEPT ![p] = ParseEnumerationResults(r).NextMarker]
             /\ UNCHANGED countEnd
        ELSE /\ pc' = [pc EXCEPT ![p] = "foundLock"]
             /\ totalBlobCount' = [totalBlobCount EXCEPT ![p] = 0]
             /\ nextMarker' = [nextMarker EXCEPT ![p] = NoMarker]
             /\ countEnd' = [countEnd EXCEPT ![p] = "token"]
    /\ req' = [req EXCEPT ![p] = "none"]
    /\ fetched' = [fetched EXCEPT ![p] = IF @ < MaxFetched THEN @ + 1 ELSE @]
    /\ UNCHANGED <<download, downloader, input, outFile, saved, lookups, flags, mainVars,
                   shared, resp, allBlobs, tmp, history>>

\* foundContainerLock.Lock() and the load of foundContainers++.
FoundLock(p) ==
    /\ pc[p] = "foundLock"
    /\ CanLock(foundContainerLock)
    /\ foundContainerLock' = TRUE
    /\ tmp' = [tmp EXCEPT ![p] = foundContainers]
    /\ pc' = [pc EXCEPT ![p] = "foundStore"]
    /\ UNCHANGED <<download, downloader, input, runHistory, flags, mainVars, sem, wg, countLock,
                   checkedCount, foundContainers, summary, resp, nextMarker,
                   allBlobs, totalBlobCount, req, fetched, history>>

\* The store of foundContainers++, foundContainerLock.Unlock(), and
\* allBlobs, nextMarker and the test of root.go 485-488.
FoundStore(p) ==
    /\ pc[p] = "foundStore"
    /\ foundContainers' = tmp[p] + 1
    /\ foundContainerLock' = FALSE
    /\ tmp' = [tmp EXCEPT ![p] = 0]
    /\ allBlobs' = [allBlobs EXCEPT ![p] = AppendPage(<<>>, NoMarker, results(p).n)]
    /\ nextMarker' = [nextMarker EXCEPT ![p] = results(p).NextMarker]
    /\ fetched' = [fetched EXCEPT ![p] = 0]
    /\ pc' = [pc EXCEPT ![p] =
                 IF /\ ListWalk(limit, results(p).NextMarker)
                    /\ ListContinue(results(p).NextMarker, results(p).n, limit)
                 THEN "listSend" ELSE "sink"]
    /\ incs' = [incs EXCEPT ![p] = @ + 1]
    /\ UNCHANGED <<download, downloader, input, runHistory, flags, mainVars, sem, wg, countLock,
                   checkedCount, summary, resp, totalBlobCount, req, class,
                   records, sinkKind, lastTok, pageOK, probes, slot, releases,
                   chain, emitted, publicCount>>

\* client.Get(nextURL) of the list walk, root.go 510-518: the request.
ListSend(p) ==
    /\ pc[p] = "listSend"
    /\ req' = [req EXCEPT ![p] = nextMarker[p]]
    /\ pc' = [pc EXCEPT ![p] = "listRecv"]
    /\ UNCHANGED <<download, downloader, input, runHistory, flags, mainVars, shared, resp, nextMarker,
                   allBlobs, totalBlobCount, tmp, fetched, history>>

\* The response of the list walk and the rest of the turn, root.go 518-556.
ListRecv(p) ==
    /\ pc[p] = "listRecv"
    /\ \E r \in PageOutcomes(server, chain[p], req[p]) :
        IF r.fail # "none" \/ ~ParseEnumerationResults(r).ok
        THEN /\ pc' = [pc EXCEPT ![p] = "sink"]
             /\ pageOK' = [pageOK EXCEPT ![p] = FALSE]
             /\ UNCHANGED <<allBlobs, nextMarker, lastTok>>
        ELSE /\ allBlobs' = [allBlobs EXCEPT
                    ![p] = AppendPage(@, req[p], ParseEnumerationResults(r).n)]
             /\ nextMarker' = [nextMarker EXCEPT
                    ![p] = ListNextMarker(@, ParseEnumerationResults(r))]
             /\ lastTok' = [lastTok EXCEPT ![p] = r.marker]
             /\ pc' = [pc EXCEPT ![p] =
                          IF ListContinue(nextMarker'[p], Length(allBlobs'[p]), limit)
                          THEN "listSend" ELSE "sink"]
             /\ UNCHANGED pageOK
    /\ req' = [req EXCEPT ![p] = "none"]
    /\ fetched' = [fetched EXCEPT ![p] = IF @ < MaxFetched THEN @ + 1 ELSE @]
    /\ UNCHANGED <<download, downloader, input, runHistory, flags, mainVars, shared, resp, totalBlobCount,
                   tmp, class, records, sinkKind, incs, probes, slot, releases,
                   chain, emitted, publicCount>>

SinkPc_AlwaysList(kind) == "listPrint"

\* Where checkContainer goes for each sink.
SinkPc(kind) ==
    IF kind = "download" THEN "dlMkdir"
    ELSE IF kind = "save" THEN "saveCreate"
    ELSE IF kind = "list" THEN "listPrint"
    ELSE ReturnPc

\* The cut to limit and the choice of the sink, root.go 561-575.
Sink(p) ==
    /\ pc[p] = "sink"
    /\ allBlobs' = [allBlobs EXCEPT ![p] = Slice(@, Truncate(Length(@), limit))]
    /\ records' = [records EXCEPT ![p] = Truncate(Length(allBlobs[p]), limit)]
    /\ sinkKind' = [sinkKind EXCEPT ![p] = SinkOf(isDownload, outputPath, listBlobs)]
    /\ pc' = [pc EXCEPT ![p] = SinkPc(SinkOf(isDownload, outputPath, listBlobs))]
    /\ UNCHANGED <<download, downloader, input, runHistory, flags, mainVars, shared, resp, nextMarker,
                   totalBlobCount, tmp, req, fetched, class, lastTok, pageOK,
                   incs, probes, slot, releases, chain, emitted, publicCount>>

\* ----------------------------------------------------- listBlobURLs
\* One line per blob of the list, root.go 579-604.
ListBlobURLs(p) ==
    /\ pc[p] = "listPrint"
    /\ emitted' = [emitted EXCEPT ![p] = Length(allBlobs[p])]
    /\ pc' = [pc EXCEPT ![p] = ReturnPc]
    /\ UNCHANGED <<download, downloader, input, runHistory, flags, mainVars, shared, locals, class,
                   records, sinkKind, lastTok, pageOK, incs, probes, slot,
                   releases, chain, publicCount>>

\* ------------------------------------------------------ saveBlobList
\* The output file is held as its runs of lines: [by |-> p, from |-> i,
\* to |-> j] stands for the URLs i..j of the list of pair p, one per line;
\* lines are taken to be of one length.
RECURSIVE DropLines(_, _)
\* What is left of a file beyond its first k lines.
DropLines(file, k) ==
    IF k <= 0 \/ file = <<>> THEN file
    ELSE IF Head(file).to - Head(file).from + 1 <= k
         THEN DropLines(Tail(file), k - (Head(file).to - Head(file).from + 1))
         ELSE <<[Head(file) EXCEPT !.from = @ + k]>> \o Tail(file)

\* The file after os.Create of saveBlobList: O_TRUNC empties it.
CreatedOutput(file) == <<>>

\* The file after n lines of pair p were written through a descriptor that
\* os.Create has just returned: they go to the start of the file, over what
\* other descriptors wrote there.
WrittenOutput(file, p, n) ==
    IF n = 0 THEN file
    ELSE <<[by |-> p, from |-> 1, to |-> n]>> \o DropLines(file, n)

\* os.Create(outputFile), root.go 613-618: every call of saveBlobList
\* creates the one file outputPath anew; on an error nothing is written.
SaveCreate(p) ==
    /\ pc[p] = "saveCreate"
    /\ \E ok \in BOOLEAN :
        /\ pc' = [pc EXCEPT ![p] = IF ok THEN "saveWrite" ELSE ReturnPc]
        /\ outFile' = IF ok THEN CreatedOutput(outFile) ELSE outFile
    /\ UNCHANGED <<download, downloader, input, saved, lookups, countEnd, flags, mainVars, shared,
                   locals, history>>

\* The number of lines of saveBlobList, root.go 621-631: saveLimit and
\* blobs[:saveLimit].
SaveCount(len, lim) ==
    LET saveLimit == IF lim > SaveLimit THEN lim ELSE SaveLimit
    IN  IF len > saveLimit THEN saveLimit ELSE len

\* One line per blob of blobsToSave, root.go 633-659.  The loop is taken as
\* one step.
SaveWrite(p) ==
    /\ pc[p] = "saveWrite"
    /\ emitted' = [emitted EXCEPT ![p] = SaveCount(Length(allBlobs[p]), limit)]
    /\ saved' = [saved EXCEPT ![p] = SaveCount(Length(allBlobs[p]), limit)]
    /\ outFile' = WrittenOutput(outFile, p, SaveCount(Length(allBlobs[p]), limit))
    /\ pc' = [pc EXCEPT ![p] = ReturnPc]
    /\ UNCHANGED <<download, downloader, input, lookups, countEnd, flags, mainVars, shared, locals,
                   class, records, sinkKind, lastTok, pageOK, incs, probes, slot,
                   releases, chain, publicCount>>

\* ----------------------------------------------------- downloadBlobs
\* Whether a request or a file operation of downloadBlobs succeeds, and
\* whether the file was there before: either way, but for the steady run.
Oks(srv) == IF srv = "steady" THEN {TRUE} ELSE BOOLEAN
WasThere(srv) == IF srv = "steady" THEN {"no"} ELSE {"yes", "no"}

DownloadSemSize_OneMore(parallel) == parallel + 1

\* "sem := make(chan struct{}, maxParallelDownload)", root.go 693.
DownloadSemSize(parallel) == parallel

NextBlob_SkipsOne(i) == i + 2

\* The next turn of "for _, blob := range blobs", root.go 696.
NextBlob(i) == i + 1

\* What os.Create leaves of a file: O_TRUNC empties the one that was there.
CreatedFile(was) == "empty"

\* os.MkdirAll(outputDir), root.go 667-671: on an error downloadBlobs
\* returns; else the loop over blobs starts, with its own sem and wg.
DlMkdir(p) ==
    /\ pc[p] = "dlMkdir"
    /\ \E ok \in Oks(server) :
        /\ pc' = [pc EXCEPT ![p] =
                     IF ~ok THEN ReturnPc
                     ELSE IF Length(allBlobs[p]) = 0 THEN "dlWait" ELSE "dlAdd"]
        /\ dlIdx' = [dlIdx EXCEPT ![p] = IF ok THEN 1 ELSE 0]
    /\ UNCHANGED <<dsem, dwg, reported, jobs, downloader, input, runHistory, flags, mainVars, shared,
                   locals, history>>

\* wg.Add(1), root.go 697.
DlAdd(p) ==
    /\ pc[p] = "dlAdd"
    /\ dwg' = [dwg EXCEPT ![p] = @ + 1]
    /\ pc' = [pc EXCEPT ![p] = "dlAcquire"]
    /\ UNCHANGED <<dlIdx, dsem, reported, jobs, downloader, input, runHistory, flags, mainVars, shared,
                   locals, history>>

\* "sem <- struct{}{}" and "go func(blob azure.Blob)", root.go 698-752.
DlAcquire(p) ==
    /\ pc[p] = "dlAcquire"
    /\ CanAcquire(dsem[p], DownloadSemSize(maxParallelDownload))
    /\ dsem' = [dsem EXCEPT ![p] = @ + 1]
    /\ jobs' = [jobs EXCEPT ![p][dlIdx[p]].pc = "mkdir",
                            ![p][dlIdx[p]].starts = @ + 1]
    /\ dlIdx' = [dlIdx EXCEPT ![p] = NextBlob(@)]
    /\ pc' = [pc EXCEPT ![p] =
                 IF NextBlob(dlIdx[p]) <= Length(allBlobs[p])
                 THEN "dlAdd" ELSE "dlWait"]
    /\ UNCHANGED <<dwg, reported, downloader, input, runHistory, flags, mainVars, shared, locals, history>>

\* wg.Wait() and "Downloaded %d files to %s" with len(blobs), root.go 754-758.
DlWait(p) ==
    /\ pc[p] = "dlWait"
    /\ WaitReturns(dwg[p])
    /\ reported' = [reported EXCEPT ![p] = Length(allBlobs[p])]
    /\ pc' = [pc EXCEPT ![p] = ReturnPc]
    /\ UNCHANGED <<dlIdx, dsem, dwg, jobs, downloader, input, runHistory, flags, mainVars, shared, locals,
                   history>>

\* What a step of the goroutine of one blob leaves alone.
jobFrame == <<dlIdx, dsem, dwg, reported, downloader, input, runHistory, flags, mainVars, shared, pc,
              locals, history>>

\* os.MkdirAll(filepath.Dir(filename)), root.go 707-714.
JobMkdir(p, j) ==
    /\ jobs[p][j].pc = "mkdir"
    /\ \E ok \in Oks(server) :
        jobs' = [jobs EXCEPT ![p][j] =
                    IF ok THEN [@ EXCEPT !.pc = "get"]
                    ELSE [@ EXCEPT !.pc = "release", !.res = "mkdir"]]
    /\ UNCHANGED jobFrame

\* client.Get(blobURL), root.go 717-725; the status is not read.
JobGet(p, j) ==
    /\ jobs[p][j].pc = "get"
    /\ \E ok \in Oks(server) :
        jobs' = [jobs EXCEPT ![p][j] =
                    IF ok THEN [@ EXCEPT !.pc = "create"]
                    ELSE [@ EXCEPT !.pc = "release", !.res = "get"]]
    /\ UNCHANGED jobFrame

\* os.Create(filename), root.go 728-735: the file is created, or truncated
\* when it was there.
JobCreate(p, j) ==
    /\ jobs[p][j].pc = "create"
    /\ \E ok \in Oks(server), was \in WasThere(server) :
        jobs' = [jobs EXCEPT ![p][j] =
                    IF ok
                    THEN [@ EXCEPT !.pc = "copy", !.existed = was,
                                   !.file = CreatedFile(was)]
                    ELSE [@ EXCEPT !.pc = "release", !.existed = was,
                                   !.res = "create"]]
    /\ UNCHANGED jobFrame

\* io.Copy(out, resp.Body) and bar.Add(1), root.go 738-748: an error is
\* printed under --debug and nothing else.
JobCopy(p, j) ==
    /\ jobs[p][j].pc = "copy"
    /\ \E ok \in Oks(server) :
        jobs' = [jobs EXCEPT ![p][j] =
                    IF ok THEN [@ EXCEPT !.pc = "release", !.res = "ok",
                                         !.file = "new"]
                    ELSE [@ EXCEPT !.pc = "release", !.res = "copy",
                                   !.file = "partial"]]
    /\ UNCHANGED jobFrame

\* The deferred "<-sem", root.go 700.
JobRelease(p, j) ==
    /\ jobs[p][j].pc = "release"
    /\ jobs' = [jobs EXCEPT ![p][j].pc = "wgDone"]
    /\ dsem' = [dsem EXCEPT ![p] = @ - 1]
    /\ UNCHANGED <<dlIdx, dwg, reported, downloader, input, runHistory, flags, mainVars, shared, pc,
                   locals, history>>

\* The deferred wg.Done(), root.go 699.
JobDone(p, j) ==
    /\ jobs[p][j].pc = "wgDone"
    /\ jobs' = [jobs EXCEPT ![p][j].pc = "done"]
    /\ dwg' = [dwg EXCEPT ![p] = WgAfterDone(@)]
    /\ UNCHANGED <<dlIdx, dsem, reported, downloader, input, runHistory, flags, mainVars, shared, pc,
                   locals, history>>

Job(p, j) ==
    \/ JobMkdir(p, j) \/ JobGet(p, j) \/ JobCreate(p, j) \/ JobCopy(p, j)
    \/ JobRelease(p, j) \/ JobDone(p, j)

\* ------------------------------------- the deferred calls, root.go 206-215
\* "<-sem": checkContainer has returned and its frame is gone, and with it
\* what the history holds of the call.
Release(p) ==
    /\ pc[p] = "release"
    /\ sem' = sem - 1
    /\ slot' = [slot EXCEPT ![p] = FALSE]
    /\ releases' = [releases EXCEPT ![p] = @ + 1]
    /\ resp' = [resp EXCEPT ![p] = NoResp]
    /\ nextMarker' = [nextMarker EXCEPT ![p] = NoMarker]
    /\ allBlobs' = [allBlobs EXCEPT ![p] = <<>>]
    /\ fetched' = [fetched EXCEPT ![p] = 0]
    /\ lastTok' = [lastTok EXCEPT ![p] = NoMarker]
    /\ pageOK' = [pageOK EXCEPT ![p] = TRUE]
    /\ class' = [class EXCEPT ![p] = "None"]
    /\ records' = [records EXCEPT ![p] = 0]
    /\ sinkKind' = [sinkKind EXCEPT ![p] = "none"]
    /\ incs' = [incs EXCEPT ![p] = 0]
    /\ chain' = [chain EXCEPT ![p] = <<>>]
    /\ emitted' = [emitted EXCEPT ![p] = -1]
    /\ dlIdx' = [dlIdx EXCEPT ![p] = 0]
    /\ reported' = [reported EXCEPT ![p] = -1]
    /\ jobs' = [jobs EXCEPT ![p] = [j \in Jobs |-> NoJob]]
    /\ countEnd' = [countEnd EXCEPT ![p] = "none"]
    /\ pc' = [pc EXCEPT ![p] = "countLock"]
    /\ UNCHANGED <<dsem, dwg, downloader, input, outFile, saved, lookups, flags, mainVars, wg, countLock, checkedCount,
                   foundContainerLock, foundContainers, summary,
                   totalBlobCount, tmp, req, probes, publicCount>>

\* countLock.Lock() and the load of checkedCount++.
CountLock(p) ==
    /\ pc[p] = "countLock"
    /\ CanLock(countLock)
    /\ countLock' = TRUE
    /\ tmp' = [tmp EXCEPT ![p] = checkedCount]
    /\ pc' = [pc EXCEPT ![p] = "countStore"]
    /\ UNCHANGED <<download, downloader, input, runHistory, flags, mainVars, sem, wg, checkedCount, foundContainerLock,
                   foundContainers, summary, resp, nextMarker, allBlobs,
                   totalBlobCount, req, fetched, history>>

\* The store of checkedCount++ and countLock.Unlock().
CountStore(p) ==
    /\ pc[p] = "countStore"
    /\ checkedCount' = tmp[p] + 1
    /\ countLock' = FALSE
    /\ tmp' = [tmp EXCEPT ![p] = 0]
    /\ pc' = [pc EXCEPT ![p] = "wgDone"]
    /\ UNCHANGED <<download, downloader, input, runHistory, flags, mainVars, sem, wg, foundContainerLock,
                   foundContainers, summary, resp, nextMarker, allBlobs,
                   totalBlobCount, req, fetched, history>>

\* wg.Done(), the first deferred call and the last to run.
WgDone(p) ==
    /\ pc[p] = "wgDone"
    /\ wg' = WgAfterDone(wg)
    /\ pc' = [pc EXCEPT ![p] = "done"]
    /\ UNCHANGED <<download, downloader, input, runHistory, flags, mainVars, sem, countLock, checkedCount,
                   foundContainerLock, foundContainers, summary, locals,
                   history>>

Worker(p) ==
    \/ Probe(p) \/ CountSend(p) \/ CountRecv(p)
    \/ FoundLock(p) \/ FoundStore(p)
    \/ ListSend(p) \/ ListRecv(p)
    \/ Sink(p) \/ ListBlobURLs(p) \/ SaveCreate(p) \/ SaveWrite(p)
    \/ DlMkdir(p) \/ DlAdd(p) \/ DlAcquire(p) \/ DlWait(p)
    \/ Release(p) \/ CountLock(p) \/ CountStore(p) \/ WgDone(p)

\* ------------------------------------------------ package downloader
\* What a step of a call of the package leaves alone.
callFrame == <<env, input, flags, mainVars, shared, pc, locals, download,
               history, runHistory>>

\* DownloadFile(client, url, destPath, baseDomain), part_000 13-46.
DownloadFile ==
    /\ call["DownloadFile"].pc \notin {"idle", "done"}
    /\ call' = [call EXCEPT !["DownloadFile"] = DownloadFileStep(@, env)]
    /\ UNCHANGED callFrame

\* DebugDownloadFile(client, url, destPath, baseDomain), part_000 74-125.
DebugDownloadFile ==
    /\ call["DebugDownloadFile"].pc \notin {"idle", "done"}
    /\ call' = [call EXCEPT !["DebugDownloadFile"] = DebugDownloadFileStep(@, env)]
    /\ UNCHANGED callFrame

Next ==
    \/ Validate \/ Resolve \/ SkipLock \/ SkipStore
    \/ WgAdd \/ Acquire \/ Wait \/ Summary
    \/ \E p \in Pairs : Worker(p)
    \/ \E p \in Pairs : \E j \in Jobs : Job(p, j)
    \/ DownloadFile \/ DebugDownloadFile

Spec == Init /\ [][Next]_vars

\* The scheduler of the Go runtime runs a goroutine that can run: while
\* some step of the program is possible, a step is taken.
FairSpec == Spec /\ WF_vars(Next)

\* ================================================================ claims
SlotsHeld == Cardinality({p \in Pairs : slot[p]})
InCheckContainer ==
    {"probe", "countSend", "countRecv", "foundLock", "foundStore",
     "listSend", "listRecv", "sink", "listPrint", "saveCreate", "saveWrite",
     "dlMkdir", "dlAdd", "dlAcquire", "dlWait", "release"}
Probed(p) == class[p] # "None"
InSink == {"listPrint", "saveCreate", "saveWrite",
           "dlMkdir", "dlAdd", "dlAcquire", "dlWait"}
AfterWalks == InSink \cup {"sink", "release"}

\* C1: at every moment the number of workers that hold a slot, counted over
\* all accounts and containers together, is at most the pool size
\* maxGoroutines, and it is the length of the one channel sem.
C1_PoolBound == SlotsHeld <= maxGoroutines /\ sem = SlotsHeld

\* Workers of two different accounts hold the two slots of a pool of 2 while
\* the dispatcher waits for a slot.
C1_Witness ==
    /\ maxGoroutines = 2 /\ SlotsHeld = 2 /\ mpc = "acquire"
    /\ \E p, q \in Pairs : p[1] # q[1] /\ slot[p] /\ slot[q]

C3_Status200Public ==
    \A p \in Pairs :
        Probed(p) /\ resp[p].fail = "none" /\ resp[p].status = 200
            => class[p] = "Public"

\* C4: a probe answered with a status other than 200 and an error body whose
\* code is empty or ResourceNotFound is classified Public.
C4_EmptyOrNotFoundPublic ==
    \A p \in Pairs :
        /\ Probed(p) /\ resp[p].fail = "none" /\ resp[p].status # 200
        /\ resp[p].kind = "error"
        /\ resp[p].code \in {"", "ResourceNotFound"}
        => class[p] = "Public"

\* C5: a probe answered with a status other than 200 and a body that no
\* parser of the error schema accepts is classified Public.
C5_UnparseablePublic ==
    \A p \in Pairs :
        /\ Probed(p) /\ resp[p].fail = "none" /\ resp[p].status # 200
        /\ ~ParseBlobError(resp[p]).ok /\ ~ParseErrorResponse(resp[p]).ok
        => class[p] = "Public"

\* C6: a probe whose answer carries a non-empty error code other than
\* ResourceNotFound is classified Forbidden: it returns at once, with no
\* increment of foundContainers, no page request, no sink and no record; and
\* a probe answered 200 with 3 records and no marker, under a limit of 3 or
\* more, is Public with 3 records when checkContainer returns.
C6_ForbiddenDoesNothing ==
    \A p \in Pairs :
        /\ /\ Probed(p) /\ resp[p].fail = "none" /\ resp[p].kind = "error"
           /\ resp[p].code \notin {"", "ResourceNotFound"}
           => /\ class[p] = "Forbidden" /\ pc[p] = "release"
              /\ incs[p] = 0 /\ records[p] = 0 /\ sinkKind[p] = "none"
              /\ fetched[p] = 0 /\ req[p] = "none" /\ allBlobs[p] = <<>>
        /\ /\ pc[p] = "release" /\ limit >= SmallPage
           /\ resp[p] = Response("none", 200, "enum", "", SmallPage, NoMarker)
           => class[p] = "Public" /\ records[p] = SmallPage /\ incs[p] = 1

\* acct1: c1 answered 200 with 3 records and c2 PublicAccessNotPermitted;
\* both workers are about to return.
C6_Witness ==
    /\ pc[<<1, 1>>] = "release" /\ pc[<<1, 2>>] = "release"
    /\ resp[<<1, 1>>] = Response("none", 200, "enum", "", 3, NoMarker)
    /\ class[<<1, 1>>] = "Public" /\ records[<<1, 1>>] = 3
    /\ resp[<<1, 2>>].code = "PublicAccessNotPermitted"
    /\ class[<<1, 2>>] = "Forbidden" /\ records[<<1, 2>>] = 0

\* C7: for an account whose lookup failed no slot is acquired, no worker is
\* dispatched and no probe is sent for any of its containers, and the
\* dispatcher goes on to the next account.
C7_UnresolvedAccountUntouched ==
    \A a \in Accounts :
        dns[a] = "fail" =>
            /\ \A c \in Containers :
                   /\ pc[<<a, c>>] = "idle" /\ ~slot[<<a, c>>]
                   /\ probes[<<a, c>>] = 0 /\ releases[<<a, c>>] = 0
            /\ \/ acct = a /\ mpc \in {"skipLock", "skipStore"}
               \/ acct > a

\* The first account did not resolve, the second did and was probed, and the
\* scan is over.
C7_Witness ==
    /\ dns[1] = "fail" /\ dns[2] = "ok" /\ mpc = "done"
    /\ probes[<<2, 1>>] = 1 /\ probes[<<2, 2>>] = 1

\* C8: once wg.Wait() has returned no worker runs, no slot is held, no lock
\* is held, and the summary prints the final value of foundContainers.
C8_SummaryAfterJoin ==
    mpc \in {"summary", "done"} =>
        /\ \A p \in Pairs : pc[p] \in {"idle", "done"} /\ ~slot[p]
        /\ sem = 0 /\ wg = 0 /\ ~foundContainerLock /\ ~countLock
        /\ mpc = "done" => summary = foundContainers

\* The summary is about to be printed after four workers, two of which
\* found a public container.
C8_Witness ==
    /\ mpc = "summary" /\ foundContainers = 2
    /\ \A p \in Pairs : pc[p] = "done"

\* C9: a worker holds its slot from before its probe request until
\* checkContainer has returned (probe, walks and sink over), and releases it
\* exactly once on every path.
C9_SlotHeldThenReleasedOnce ==
    \A p \in Pairs :
        /\ pc[p] = "idle" => ~slot[p] /\ releases[p] = 0 /\ probes[p] = 0
        /\ pc[p] \in InCheckContainer => slot[p] /\ releases[p] = 0
        /\ pc[p] \in {"countLock", "countStore", "wgDone", "done"} =>
               ~slot[p] /\ releases[p] = 1 /\ probes[p] = 1

\* One worker has released its slot after the early return of a failed
\* probe while another is still in its sink, holding its slot.
C9_Witness ==
    \E p, q \in Pairs :
        /\ pc[p] = "done" /\ releases[p] = 1
        /\ pc[q] \in InSink /\ slot[q] /\ releases[q] = 0
        /\ publicCount = 1

\* C10: every pair classified Public increments foundContainers exactly
\* once and no other pair does; when the scan is over foundContainers, and
\* the number the summary prints, is the number of pairs classified Public.
C10_FoundIsPublicCount ==
    /\ \A p \in Pairs :
           /\ incs[p] <= 1
           /\ incs[p] = 1 => class[p] = "Public"
           /\ pc[p] \in AfterWalks /\ class[p] = "Public"
                  => incs[p] = 1
    /\ foundContainers <= publicCount
    /\ mpc \in {"summary", "done"} => foundContainers = publicCount
    /\ mpc = "done" => summary = publicCount

\* The scan is over with a pool of 2 and three public containers found.
C10_Witness ==
    mpc = "done" /\ maxGoroutines = 2 /\ foundContainers = 3 /\ summary = 3

\* C11: under a scheduler that runs what can run, and with every request,
\* lookup and file operation returning (with a result or an error), a scan
\* that has started on its accounts ends: wg.Wait() returns and the summary
\* is printed, for every pool size and every download parallelism of at
\* least 1, every page chain that ends and every pattern of failures of the
\* model.
C11_ScanTerminates ==
    (/\ mpc = "resolve" /\ server # "loop"
     /\ maxGoroutines >= 1 /\ maxParallelDownload >= 1)
        ~> (mpc = "done" /\ summary = foundContainers)

\* The scan of one public container, downloaded two blobs at a time, is
\* over and its summary printed.
C11_Witness ==
    /\ mpc = "done" /\ summary = 1
    /\ isDownload /\ maxParallelDownload = MaxM /\ publicCount = 1

\* The pages of a chain up to page k.
Prefix(ch, k) == SubSeq(ch, 1, k)

\* C12: when a page request or the parse of a page of the list walk fails,
\* the walk stops, the sink is called with exactly the blobs of the pages
\* fetched before the failure, and the call carries a completeness flag
\* that says incomplete.
C12_PartialResultFlagged ==
    \A p \in Pairs :
        pc[p] \in InSink /\ ~pageOK[p] =>
            /\ allBlobs[p] = BlobsOf(Prefix(chain[p], fetched[p]))
            /\ "complete" \in DOMAIN SinkArgs(p, allBlobs[p])
            /\ SinkArgs(p, allBlobs[p]).complete = FALSE

\* C13: when the list walk has followed the chain of a container to the
\* empty marker and the limit is larger than the number of its blobs, the
\* list is the blobs of page 1, then of page 2, ..., each page in its own
\* order, nothing left out, nothing twice; 5000 blobs with a marker and then
\* 10 without give 5010.
C13_ChainConcatenated ==
    \A p \in Pairs :
        /\ pc[p] \in InSink \cup {"release"} /\ class[p] = "Public"
        /\ pageOK[p] /\ lastTok[p] = NoMarker
        /\ limit > Total(chain[p])
        => /\ allBlobs[p] = BlobsOf(chain[p])
           /\ records[p] = Total(chain[p])
           /\ chain[p] = <<FullPage, TenPage>> => records[p] = FullPage + TenPage

\* The chain of 5000 blobs with marker m1 and 10 blobs without was walked
\* under a limit of 5011 and gave 5010 blobs, the 10 after the 5000.
C13_Witness ==
    \E p \in Pairs :
        /\ pc[p] = "release" /\ pageOK[p] /\ lastTok[p] = NoMarker
        /\ limit = BigLimit /\ chain[p] = <<FullPage, TenPage>>
        /\ allBlobs[p] = <<[from |-> NoMarker, n |-> FullPage],
                           [from |-> "m1", n |-> TenPage]>>
        /\ records[p] = FullPage + TenPage

Min(a, b) == IF a < b THEN a ELSE b

\* C14: with --list, whatever the limit, the number of blobs of the
\* container and the way they are split into pages, when every request
\* succeeds the list handed to listBlobURLs has min(limit, number of blobs)
\* elements.
C14_ListedIsMinOfLimitAndTotal ==
    \A p \in Pairs :
        pc[p] \in {"listPrint", "release"} /\ sinkKind[p] = "list" /\ pageOK[p]
            => records[p] = Min(limit, Total(chain[p]))

C16_LimitNotAppliedToFile ==
    \A p \in Pairs :
        /\ pc[p] = "release" /\ sinkKind[p] = "save" /\ limit # SaveLimit
        /\ pageOK[p] /\ emitted[p] >= 0
        /\ limit < Total(chain[p])
        => emitted[p] = Total(chain[p])

\* The download goroutines of a pair that hold a slot of its sem.
InFlight(p) ==
    {j \in Jobs : jobs[p][j].pc \in {"mkdir", "get", "create", "copy", "release"}}
Failed(p) ==
    {j \in Jobs : jobs[p][j].res \in {"mkdir", "get", "create", "copy"}}

\* C17: while the blobs of a container are downloaded, at most
\* maxParallelDownload of its download goroutines are in flight, and they
\* are as many as the sem of that downloadBlobs call holds.
C17_DownloadBound ==
    \A p \in Pairs :
        /\ Cardinality(InFlight(p)) <= maxParallelDownload
        /\ Cardinality(InFlight(p)) = dsem[p]

\* Two downloads of a container are in flight under a parallelism of 2 and
\* the loop waits for a slot for the third blob.
C17_Witness ==
    \E p \in Pairs :
        /\ maxParallelDownload = 2 /\ Cardinality(InFlight(p)) = 2
        /\ pc[p] = "dlAcquire" /\ dlIdx[p] = 3

C19_FailuresCounted ==
    \A p \in Pairs :
        pc[p] = "release" /\ reported[p] >= 0 =>
            reported[p] = records[p] - Cardinality(Failed(p))

\* C20: a blob whose file is there before the download is skipped: the
\* file keeps what it held.
C20_ExistingFileSkipped ==
    \A p \in Pairs : \A j \in Jobs :
        jobs[p][j].existed = "yes" => jobs[p][j].file = "asWas"

RECURSIVE LinesBy(_, _)
\* The number of lines of pair p that a file holds.
LinesBy(file, p) ==
    IF file = <<>> THEN 0
    ELSE (IF Head(file).by = p THEN Head(file).to - Head(file).from + 1 ELSE 0)
         + LinesBy(Tail(file), p)

\* C21: with --output, once the scan is over the output file holds every
\* URL that any worker wrote to it: all the lines of every public
\* container, however the workers were interleaved.
C21_FileHoldsEveryContainer ==
    mpc = "done" /\ outputPath # "" =>
        \A p \in Pairs : LinesBy(outFile, p) = saved[p]

\* What a sink leaves behind for pair p: lines listed or written, the file
\* created by this worker, a download that got as far as its directory.
ListPcs == {"listPrint"}
SavePcs == {"saveCreate", "saveWrite"}
DownloadPcs == {"dlMkdir", "dlAdd", "dlAcquire", "dlWait"}
DownloadActed(p) ==
    \/ dlIdx[p] > 0 \/ reported[p] >= 0
    \/ \E j \in Jobs : jobs[p][j] # NoJob

\* C22: for every configuration that passes the flag check, exactly one of
\* listBlobURLs, saveBlobList and downloadBlobs runs for each public
\* container: when a public container is done with checkContainer one of
\* the three was chosen for it.
C22_ExactlyOneSink ==
    \A p \in Pairs :
        pc[p] = "release" /\ class[p] = "Public" => sinkKind[p] # "none"

\* C22 as the code has it: at most one of the three runs for a container,
\* the one that the flags name (download before output path before list),
\* and none of them runs when no flag of the three is given.
C22_AtMostOneSinkAsFlagged ==
    \A p \in Pairs :
        /\ pc[p] \in ListPcs => sinkKind[p] = "list"
        /\ pc[p] \in SavePcs => sinkKind[p] = "save"
        /\ pc[p] \in DownloadPcs => sinkKind[p] = "download"
        /\ emitted[p] >= 0 => sinkKind[p] \in {"list", "save"}
        /\ DownloadActed(p) => sinkKind[p] = "download"
        /\ sinkKind[p] # "save" /\ pc[p] \in InCheckContainer =>
               saved[p] = 0 /\ LinesBy(outFile, p) = 0
        /\ sinkKind[p] # "none" =>
               sinkKind[p] = (IF isDownload THEN "download"
                              ELSE IF outputPath # "" THEN "save" ELSE "list")
        /\ pc[p] = "release" /\ class[p] = "Public" =>
               (sinkKind[p] = "none" <=>
                   ~isDownload /\ outputPath = "" /\ ~listBlobs)

\* A public container of 3 blobs leaves checkContainer of a run without
\* --download, --output and --list: no sink has run for it.
C22_Witness ==
    \E p \in Pairs :
        /\ pc[p] = "release" /\ class[p] = "Public" /\ records[p] = SmallPage
        /\ ~isDownload /\ outputPath = "" /\ ~listBlobs
        /\ sinkKind[p] = "none" /\ emitted[p] = -1 /\ ~DownloadActed(p)

\* C23: when an output path and --list are given together, Run returns
\* before any work: no account is resolved, no container probed or
\* enumerated, nothing listed, written or downloaded, and no counter or
\* flag changes.
C23_RefusedBeforeAnyWork ==
    /\ outputPath # "" /\ listBlobs => mpc \in {"start", "aborted"}
    /\ mpc = "aborted" =>
        /\ outputPath # "" /\ listBlobs
        /\ \A a \in Accounts : dns[a] = "unknown" /\ lookups[a] = 0
        /\ \A p \in Pairs :
               /\ pc[p] = "idle" /\ probes[p] = 0 /\ class[p] = "None"
               /\ fetched[p] = 0 /\ req[p] = "none" /\ allBlobs[p] = <<>>
               /\ emitted[p] = -1 /\ saved[p] = 0 /\ ~DownloadActed(p)
               /\ releases[p] = 0 /\ ~slot[p]
        /\ outFile = <<>>
        /\ checkedCount = 0 /\ foundContainers = 0 /\ publicCount = 0
        /\ sem = 0 /\ wg = 0 /\ summary = -1
        /\ limit \in Limits

\* Run has returned on --output together with --list.
C23_Witness == mpc = "aborted" /\ outputPath # "" /\ listBlobs

RunPairs == {p \in Pairs : p[1] <= numAccounts /\ p[2] <= numContainers}

\* C25: each pair of an account that resolves is probed exactly once in a
\* scan, by one worker: the request without a marker is sent once for it,
\* and never for a pair of an account that does not resolve.  When
\* client.Get of the probe fails the pair is not Public, the worker returns
\* at once, and no page is fetched and nothing is listed, saved or
\* downloaded for it.
C25_ProbedOnce ==
    \A p \in Pairs :
        /\ probes[p] <= 1 /\ releases[p] <= probes[p]
        /\ pc[p] = "probe" => probes[p] = 0
        /\ pc[p] \in InCheckContainer \ {"probe"} => probes[p] = 1
        /\ probes[p] = 1 => p \in RunPairs /\ dns[p[1]] = "ok"
        /\ mpc = "done" /\ p \in RunPairs /\ dns[p[1]] = "ok" =>
               probes[p] = 1 /\ releases[p] = 1
        /\ Probed(p) /\ resp[p].fail = "get" =>
               /\ class[p] = "TransientError" /\ pc[p] = "release"
               /\ fetched[p] = 0 /\ req[p] = "none" /\ allBlobs[p] = <<>>
               /\ incs[p] = 0 /\ sinkKind[p] = "none" /\ emitted[p] = -1
               /\ ~DownloadActed(p)

\* The probe of one container failed in client.Get and its worker is about
\* to leave, while the other container of the account was probed and found
\* Public.
C25_Witness ==
    \E p, q \in Pairs :
        /\ p # q /\ p[1] = q[1]
        /\ probes[p] = 1 /\ resp[p].fail = "get" /\ pc[p] = "release"
        /\ probes[q] = 1 /\ class[q] = "Public"

\* C26: each account is resolved exactly once, and every account has been
\* resolved before the first worker is dispatched: while any worker exists
\* no account of the run is still unresolved.
C26_ResolutionBeforeDispatch ==
    (\E p \in Pairs : pc[p] # "idle") =>
        \A a \in Accounts : a <= numAccounts => dns[a] # "unknown"

\* C26 as the code has it: each account is resolved exactly once, inside
\* the loop over the accounts, before the workers of that account are
\* dispatched; the accounts after it are resolved later, while its workers
\* run, and all are resolved when the loop is left.
C26_ResolvedOnceBeforeOwnWorkers ==
    /\ \A a \in Accounts :
           /\ lookups[a] <= 1
           /\ lookups[a] = 1 <=> dns[a] # "unknown"
           /\ lookups[a] = 1 => a <= acct /\ a <= numAccounts
           /\ a < acct /\ a <= numAccounts => lookups[a] = 1
           /\ mpc \in {"wait", "summary", "done"} /\ a <= numAccounts =>
                  lookups[a] = 1
    /\ \A p \in Pairs :
           pc[p] # "idle" => dns[p[1]] = "ok" /\ lookups[p[1]] = 1

\* The second account has been resolved while a worker of the first
\* account, dispatched before, has not yet sent its probe.
C26_Witness ==
    /\ numAccounts = 2 /\ lookups[1] = 1 /\ lookups[2] = 1
    /\ pc[<<1, 1>>] = "probe"

RECURSIVE ListedBy(_)
\* The number of URLs that the workers of the pairs S have listed.
ListedBy(S) ==
    IF S = {} THEN 0
    ELSE LET p == CHOOSE q \in S : TRUE
         IN  (IF emitted[p] > 0 THEN emitted[p] ELSE 0) + ListedBy(S \ {p})

\* C27: a run with --list and --limit L displays at most L blob URLs in
\* total, over all the public containers it finds.
C27_ListedAtMostLimitInTotal ==
    listBlobs /\ outputPath = "" /\ ~isDownload => ListedBy(Pairs) <= limit

\* C28: under a scheduler that runs what can run, the list walk of a
\* container ends for every cap: a worker that is about to request a page
\* of the list walk comes to the cut and the choice of the sink, also when
\* the server answers every request with a token and a page without blobs.
C28_ListWalkEnds ==
    \A p \in Pairs : (pc[p] = "listSend") ~> (pc[p] = "sink")

\* The pcs of the count walk, and those a worker has after it.
InCountWalk == {"countSend", "countRecv"}
AfterCountWalk == (InCheckContainer \ (InCountWalk \cup {"probe"}))
                      \cup {"countLock", "countStore", "wgDone", "done"}

\* C29: with --total-count and a marker on the first page the count walk
\* is entered, holds the slot of its worker, and is left only on a page
\* without a marker or on a fetch or parse that failed; neither the limit
\* nor the number of pages or blobs ends it.  On a chain whose every page
\* has a marker and no request fails it is never left: the worker stays in
\* it with its slot, and the scan does not come to its summary.
C29_CountWalkEndsOnlyOnTokenOrFailure ==
    \A p \in Pairs :
        /\ pc[p] \in InCountWalk =>
               /\ totalCount /\ class[p] = "Public" /\ results(p).NextMarker # NoMarker
               /\ slot[p] /\ sem >= 1 /\ releases[p] = 0
               /\ countEnd[p] = "none"
               /\ mpc \notin {"summary", "done"}
        /\ pc[p] = "countSend" => nextMarker[p] # NoMarker
        /\ countEnd[p] # "none" =>
               /\ totalCount /\ results(p).NextMarker # NoMarker /\ fetched[p] >= 0
               /\ pc[p] \in AfterCountWalk
               /\ server # "loop"
        /\ countEnd[p] = "token" /\ pc[p] = "foundLock" =>
               fetched[p] = Len(chain[p]) - 1
        /\ pc[p] \in AfterCountWalk /\ class[p] = "Public"
              /\ totalCount /\ results(p).NextMarker # NoMarker /\ pc[p] = "foundLock" =>
               countEnd[p] # "none"

\* The count walk of a container whose chain never ends is about to request
\* one more page: it has asked for MaxFetched pages already and counted
\* more blobs than the limit, and holds the one slot while the dispatcher
\* waits for the workers.
C29_Witness ==
    \E p \in Pairs :
        /\ server = "loop" /\ totalCount /\ limit = TinyLimit
        /\ pc[p] = "countSend" /\ fetched[p] = MaxFetched
        /\ totalBlobCount[p] > limit /\ fetched[p] > limit
        /\ slot[p] /\ sem = maxGoroutines /\ mpc = "wait"

\* The accounts that did not resolve and were skipped, and the workers that
\* have made their increment.
SkippedAccounts ==
    {a \in Accounts : a <= numAccounts /\ dns[a] = "fail" /\ a < acct}
CountedWorkers == {p \in Pairs : pc[p] \in {"wgDone", "done"}}

\* C30: checkedCount is the number of containers times the number of
\* accounts skipped so far, plus one for every worker that has made its
\* deferred increment, which it does on every path, holding no slot and
\* before wg.Done(); it never exceeds the number of pairs, and it is that
\* number when the summary is printed.
C30_CheckedCountIsPairs ==
    /\ checkedCount = numContainers * Cardinality(SkippedAccounts)
                          + Cardinality(CountedWorkers)
    /\ checkedCount <= numAccounts * numContainers
    /\ mpc \in {"summary", "done"} => checkedCount = numAccounts * numContainers
    /\ \A p \in Pairs :
           /\ p \in CountedWorkers => ~slot[p] /\ releases[p] = 1
           /\ pc[p] = "wgDone" => wg >= 1 /\ mpc \notin {"summary", "done"}

\* The summary of a scan of two accounts is printed: the first did not
\* resolve, the containers of the second were probed, one of them without
\* an answer.
C30_Witness ==
    /\ mpc = "done" /\ numAccounts = 2 /\ dns[1] = "fail" /\ dns[2] = "ok"
    /\ checkedCount = numAccounts * numContainers
    /\ \A p \in RunPairs : p[1] = 2 => pc[p] = "done"

\* Is path below dir.
Inside(path, dir) ==
    Len(path) > Len(dir) /\ SubSeq(path, 1, Len(dir)) = dir

\* The jobs of a pair that are between their start and their deferred calls.
Running(p) == {j \in Jobs : jobs[p][j].pc \in {"mkdir", "get", "create", "copy"}}

\* C31: every file that a job of downloadBlobs has created or truncated
\* lies below outputPath/account/container, whatever the name of the blob,
\* and two jobs of a container that run at the same time for blobs of
\* different names have different files.
C31_FilesInsideOutputDir ==
    \A p \in Pairs :
        /\ \A j \in Jobs :
               jobs[p][j].file # "asWas" =>
                   Inside(Filename(outputPath, p, blobNames[j]),
                          OutputDir(outputPath, p))
        /\ \A j, k \in Running(p) :
               blobNames[j] # blobNames[k] =>
                   Filename(outputPath, p, blobNames[j])
                       # Filename(outputPath, p, blobNames[k])

RECURSIVE JobsInFlightOf(_)
\* The number of jobs of the pairs S that hold a slot of their download
\* semaphore.
JobsInFlightOf(S) ==
    IF S = {} THEN 0
    ELSE LET p == CHOOSE q \in S : TRUE
         IN  Cardinality(InFlight(p)) + JobsInFlightOf(S \ {p})
Downloading == {p \in Pairs : InFlight(p) # {}}

\* C32: over the whole run at most maxGoroutines x maxParallelDownload
\* download jobs are in flight at a time: each container has its own
\* semaphore of size maxParallelDownload, held by its jobs only while its
\* worker holds a slot of the probe pool.  The jobs of all containers
\* together are not held to maxParallelDownload.
C32_JobsBoundedByProduct ==
    /\ JobsInFlightOf(Pairs) <= maxGoroutines * maxParallelDownload
    /\ Cardinality(Downloading) <= sem /\ sem <= maxGoroutines
    /\ \A p \in Pairs :
           /\ Cardinality(InFlight(p)) = dsem[p]
           /\ dsem[p] <= maxParallelDownload
           /\ p \in Downloading => slot[p] /\ pc[p] \in DownloadPcs

\* Two containers are downloaded at the same time, each with as many jobs
\* in flight as its semaphore allows: more jobs than maxParallelDownload.
C32_Witness ==
    /\ maxGoroutines = MaxN /\ maxParallelDownload = MaxM
    /\ Cardinality(Downloading) = MaxN
    /\ JobsInFlightOf(Pairs) = maxGoroutines * maxParallelDownload
    /\ JobsInFlightOf(Pairs) > maxParallelDownload

\* C33: with maxGoroutines = 0 the summary is never printed, and with
\* maxParallelDownload = 0 no public container comes to the deferred
\* release of its slot.
C33_PoolOfNoneNeverEnds ==
    /\ maxGoroutines = 0 => summary = -1
    /\ maxParallelDownload = 0 =>
           \A p \in Pairs : class[p] = "Public" => pc[p] # "release"

\* C33 as the code has it.  With maxGoroutines = 0 no worker is started and
\* no probe sent, and the dispatcher stays at "sem <- struct{}{}" for the
\* first container of the first account that resolves; the summary is
\* printed only when no account resolves, and then every container counts
\* as checked.  With maxParallelDownload = 0 no job is started, and the worker
\* of a public container whose directory was made stays at "sem <- struct{}{}"
\* of its first blob, with its slot; it returns only when os.MkdirAll of
\* the directory fails.
C33_PoolOfNoneBlocksFirstAcquire ==
    /\ maxGoroutines = 0 =>
        /\ sem = 0 /\ foundContainers = 0 /\ wg <= 1
        /\ \A p \in Pairs : pc[p] = "idle" /\ probes[p] = 0 /\ ~slot[p]
        /\ \A a \in Accounts :
               dns[a] = "ok" =>
                   /\ acct = a /\ cont = 1 /\ mpc \in {"add", "acquire"}
                   /\ \A b \in Accounts : b < a => dns[b] = "fail"
        /\ mpc \in {"wait", "summary", "done"} =>
               /\ \A a \in Accounts : a <= numAccounts => dns[a] = "fail"
               /\ checkedCount = numAccounts * numContainers
    /\ maxParallelDownload = 0 =>
        \A p \in Pairs :
            /\ dsem[p] = 0 /\ dwg[p] <= 1 /\ reported[p] = -1
            /\ \A j \in Jobs : jobs[p][j] = NoJob
            /\ dlIdx[p] >= 1 =>
                   /\ dlIdx[p] = 1 /\ pc[p] \in {"dlAdd", "dlAcquire"}
                   /\ slot[p] /\ releases[p] = 0
                   /\ mpc \notin {"summary", "done"}
            /\ pc[p] = "release" /\ class[p] = "Public" => dlIdx[p] = 0

\* The first account did not resolve and its containers were counted; the
\* second resolved, and the dispatcher is at the send on sem for its first
\* container, with a pool of size 0.
C33_Witness ==
    /\ maxGoroutines = 0 /\ numAccounts = 2
    /\ dns[1] = "fail" /\ dns[2] = "ok"
    /\ mpc = "acquire" /\ acct = 2 /\ cont = 1 /\ wg = 1 /\ sem = 0
    /\ checkedCount = numContainers

\* The calls of the package that have returned.
ReturnedCalls == {f \in Functions : call[f].pc = "done"}
AllWell(e) == e.mkdir /\ e.create /\ e.get /\ e.status = 200 /\ e.copy

====
